---- MODULE Spec2Model ----
(***************************************************************************)
(* serve-npm-tarballs: the bounded-concurrency runner promiseAllConcurrent *)
(* and the two-phase registry bring-up of runWithServer / runVerdaccio.    *)
(*                                                                         *)
(* One Node.js process, one event loop.  Every action below is one         *)
(* macrotask (an event delivered by the loop) together with the chain of   *)
(* promise reactions it triggers, up to the next point where the program   *)
(* waits for an event again.                                               *)
(***************************************************************************)
EXTENDS Integers, Sequences, FiniteSets, TLC

\* ------------------------------------------------------------------ bounds
MaxN == 4        \* thunks handed to promiseAllConcurrent by a direct caller
MaxLimit == 4    \* explicit limit argument n of a direct caller
MaxCpus == 6     \* os.cpus().length of the machine
MaxLateSignals == 2   \* signals followed after the action has ended
MaxMasks == 2    \* --hide-upstream options given
MaxPackages == 3 \* packages at the top level of npm-shrinkwrap.json
MaxFiles == 3    \* files found by the glob / directory listing

Values == {"a", "b"}          \* what a thunk of a direct caller resolves with
Undefined == "undefined"      \* what invokeSubprocess resolves with

VARIABLES
  \* the machine
  cpus,                 \* os.cpus().length
  unhandledRejections,  \* what this Node does with an unhandled rejection
  \* promiseAllConcurrent
  thunks,               \* thunks.length
  n,                    \* the limit after n = n || default
  status,               \* status[i]: the promise returned by thunks[i]()
  value,                \* value[i]: what thunk i resolved with
  resolved,             \* the array `resolved`, as indices of thunks
  next,                 \* the cursor `next`
  okCalled,             \* ok(...) has been called
  awaited,              \* the array Promise.all was given by the first ok
  outcome,              \* the promise promiseAllConcurrent returned
  cause,                \* the thunk whose error the returned promise carries (0: none)
  results,              \* the array the returned promise resolved with
  \* main / runWithServer / runVerdaccio
  pc,                   \* where the process is
  mode,                 \* "single" (COMMAND given) or "daemon" (--daemon child)
  tarballFiles,         \* per file found: what kind of archive it is
  tarballs,             \* the TarballInfo list, as indices of tarballFiles
  webServer,            \* the listener of each runVerdaccio call
  tempDir,              \* the directory made by mkdtemp
  exitCode,             \* process.exitCode (0: never set)
  actionCalls,          \* how often the caller's action was invoked
  actionResult,         \* how the action ended
  overtaken,            \* some thunk settled while an earlier one was running
  \* the command line and the daemon's parent process
  argv,                 \* argv._ is non-empty (command), argv.daemon
  parent,               \* the process that forked the daemon child
  sent,                 \* messages the child gave to process.send
  stdout,               \* messages the parent wrote to its stdout
  \* signals delivered to the process that runs runWithServer
  signalled,            \* those delivered while the action was running
  lateSignals,          \* how many were delivered after the action had ended
  \* the registry configuration of the serve phase
  hideUpstream,         \* argv["hide-upstream"]
  hideTarballs,         \* argv["hide-tarballs"]
  packageNames,         \* packageJson.name of each tarball
  packagesToHide,       \* the array packagesToHide
  finalPackageConfig,   \* the object finalPackageConfig: its entries in key order
  \* shrink-snip.ts
  shrinkwrap,           \* shrinkwrap.dependencies: the packages in key order
  directDeps,           \* the array directDeps, as the set of its names
  changes               \* the module-level variable `changes`

runnerVars == <<thunks, n, status, value, resolved, next, okCalled, awaited,
                outcome, cause, results, overtaken>>
serverVars == <<mode, tarballFiles, tarballs, webServer, tempDir, exitCode,
                actionCalls, actionResult>>
daemonVars == <<parent, sent, stdout>>
\* What only a few actions touch.
machineVars == <<cpus, unhandledRejections>>
signalVars == <<signalled, lateSignals>>
configVars == <<hideUpstream, hideTarballs, packageNames, packagesToHide,
                finalPackageConfig>>
snipVars == <<shrinkwrap, directDeps, changes>>
restVars == <<machineVars, configVars, snipVars, argv, parent, stdout, signalVars>>
vars == <<restVars, sent, runnerVars, pc, serverVars>>

Max2(a, b) == IF a >= b THEN a ELSE b
Min2(a, b) == IF a <= b THEN a ELSE b

\* ------------------------------------------------------ promiseAllConcurrent

\* n = n || Math.max(2, os.cpus().length / 2).  An absent n and n = 0 are both
\* falsy, written 0 here.  The default is a fraction for an odd number of
\* cpus; its only use is thunks.slice(0, n), which truncates it.
DefaultLimit(c) == Max2(2, c \div 2)
EffectiveLimit(arg, c) == IF arg = 0 THEN DefaultLimit(c) ELSE arg

\* initial = thunks.slice(0, n): the length of that slice.
InitialLengthOneMore(N, lim) == Min2(lim + 1, N)
InitialLength(N, lim) == Min2(lim, N)

\* The synchronous part of a call: the initial thunks are called and their
\* promises pushed, in input order; next = initial.length.
PromiseAllConcurrentCall(N, arg, c) ==
  LET lim == EffectiveLimit(arg, c)
      len == InitialLength(N, lim)
  IN [thunks   |-> N,
      n        |-> lim,
      status   |-> [i \in 1..N |-> IF i <= len THEN "running" ELSE "unlaunched"],
      value    |-> [i \in 1..N |-> Undefined],
      resolved |-> [k \in 1..len |-> k],
      next     |-> len,
      okCalled |-> FALSE,
      awaited  |-> <<>>,
      outcome  |-> "pending",
      cause    |-> 0,
      results  |-> <<>>]

NoCall == PromiseAllConcurrentCall(0, 1, 1)

\* resolved.push(p) where p belongs to thunk i.
PushFront(arr, i) == <<i>> \o arr
Push(arr, i) == Append(arr, i)

\* function runNext(): the state of the runner after the call.
runNext(r) ==
  IF r.next = r.thunks
    THEN [r EXCEPT !.okCalled = TRUE,
                   !.awaited = IF r.okCalled THEN r.awaited ELSE r.resolved]
    ELSE [r EXCEPT !.next = r.next + 1,
                   !.resolved = Push(r.resolved, r.next + 1),
                   !.status = [r.status EXCEPT ![r.next + 1] = "running"]]

\* The reaction to the settling of a thunk's promise: res.then(y => { runNext();
\* return y; }) has a fulfilment callback only.
ReactionAlways(r, good) == runNext(r)
Reaction(r, good) == IF good THEN runNext(r) ELSE r

\* Promise.all(arr): rejected as soon as one member is rejected, fulfilled
\* when all are fulfilled.
PromiseAllState(arr, st) ==
  IF \E k \in 1..Len(arr) : st[arr[k]] = "rejected" THEN "rejected"
  ELSE IF \A k \in 1..Len(arr) : st[arr[k]] = "fulfilled" THEN "fulfilled"
  ELSE "pending"

\* The values Promise.all resolves with: member k's value at place k.
PromiseAllValues(arr, val) == [k \in 1..Len(arr) |-> val[arr[k]]]

\* The first member found rejected when Promise.all subscribes, in array order.
FirstRejected(arr, st) ==
  LET ks == {k \in 1..Len(arr) : st[arr[k]] = "rejected"}
  IN arr[CHOOSE k \in ks : \A j \in ks : k <= j]

Running == {i \in 1..thunks : status[i] = "running"}
Settled == {i \in 1..thunks : status[i] \in {"fulfilled", "rejected"}}
Rejected == {i \in 1..thunks : status[i] = "rejected"}

Runner ==
  [thunks |-> thunks, n |-> n, status |-> status, value |-> value,
   resolved |-> resolved, next |-> next, okCalled |-> okCalled,
   awaited |-> awaited, outcome |-> outcome, cause |-> cause,
   results |-> results]

RunnerIs(r) ==
  /\ thunks = r.thunks /\ n = r.n /\ status = r.status /\ value = r.value
  /\ resolved = r.resolved /\ next = r.next /\ okCalled = r.okCalled
  /\ awaited = r.awaited /\ outcome = r.outcome /\ cause = r.cause
  /\ results = r.results

RunnerBecomes(r) ==
  /\ thunks' = r.thunks /\ n' = r.n /\ status' = r.status /\ value' = r.value
  /\ resolved' = r.resolved /\ next' = r.next /\ okCalled' = r.okCalled
  /\ awaited' = r.awaited /\ outcome' = r.outcome /\ cause' = r.cause
  /\ results' = r.results

\* The promise handed to ok settles the returned promise, once.
Aggregate(r) ==
  LET all == IF r.okCalled THEN PromiseAllState(r.awaited, r.status)
             ELSE "pending"
  IN IF r.outcome # "pending" \/ all = "pending" THEN r
     ELSE IF all = "rejected"
       THEN [r EXCEPT !.outcome = "rejected",
                      !.cause = FirstRejected(r.awaited, r.status)]
       ELSE [r EXCEPT !.outcome = "fulfilled",
                      !.results = PromiseAllValues(r.awaited, r.value)]

\* The runner after thunk i's promise settled and the reactions ran.
AfterSettle(r, i, good, v) ==
  LET r0 == [r EXCEPT !.status[i] = IF good THEN "fulfilled" ELSE "rejected",
                      !.value[i] = IF good THEN v ELSE Undefined]
  IN Aggregate(Reaction(r0, good))

\* A rejection nobody handles.  The promise res.then(...) of an initial thunk
\* is never stored, so its rejection is never handled; the promise of a later
\* thunk sits in `resolved` and is handled once Promise.all has subscribed.
UnhandledRejection(i, good) ==
  /\ ~good
  /\ i <= InitialLength(thunks, n) \/ ~okCalled

\* ------------------------------------------------- runWithServer, runVerdaccio

Phases == {"publish", "serve"}
Alive == pc \notin {"exited", "crashed"}

\* catch (e) { console.error(e.message); process.exitCode = 1; }
ExitCodeKept(failed, code) == code
ExitCodeAfter(failed, code) == IF failed THEN 1 ELSE code

\* webServer.close() follows the try/catch around block(): it runs on both paths.
CloseOnSuccessOnly(ws, phase, failed) ==
  IF failed THEN ws ELSE [ws EXCEPT ![phase] = "closing"]
CloseForgotten(ws, phase, failed) == ws
CloseRequested(ws, phase, failed) == [ws EXCEPT ![phase] = "closing"]

\* The second runVerdaccio call is reached only when the await of the first one
\* did not throw: a rejection of the publish phase jumps to the catch block.
ProceedsAfterFailure(phase, failed) == phase = "publish"
ProceedsToServe(phase, failed) == ~failed /\ phase = "publish"

\* The tail of runVerdaccio once block() has settled (ko(e) on a throw, then
\* webServer.close(); ok()) and runWithServer's continuation up to its next
\* wait: startVerdaccio for the serve phase, or catch/finally and fs.rmdir.
BlockSettled(phase, failed) ==
  /\ webServer' = CloseRequested(webServer, phase, failed)
  /\ exitCode' = ExitCodeAfter(failed, exitCode)
  /\ IF ProceedsToServe(phase, failed)
       THEN pc' = "serve_starting" /\ UNCHANGED tempDir
       ELSE pc' = "rmdir" /\ tempDir' = "removing"

\* An uncaught error ends the process at once: nothing is cleaned up, the
\* operating system closes the sockets.
ProcessDies ==
  /\ pc' = "crashed"
  /\ exitCode' = 1
  /\ webServer' = [p \in Phases |->
                     IF webServer[p] = "none" THEN "none" ELSE "closed"]
  /\ UNCHANGED tempDir

\* A thunk's promise settles: the child's 'close' (or 'error') event in
\* invokeSubprocess, which resolves on exit code 0 and rejects otherwise.
Settle(i, good, v) ==
  /\ Alive
  /\ i \in 1..thunks
  /\ status[i] = "running"
  /\ LET r == AfterSettle(Runner, i, good, v)
     IN /\ RunnerBecomes(r)
        /\ overtaken' = (overtaken \/ \E j \in 1..(i - 1) : status[j] = "running")
        /\ IF UnhandledRejection(i, good) /\ unhandledRejections = "throw"
             THEN ProcessDies
           ELSE IF pc = "publishing" /\ r.outcome # "pending"
             THEN BlockSettled("publish", r.outcome = "rejected")
           ELSE UNCHANGED <<pc, webServer, tempDir, exitCode>>
  /\ UNCHANGED <<restVars, sent, mode, tarballFiles, tarballs,
                 actionCalls, actionResult>>

ThunkValues == IF pc = "standalone" THEN Values ELSE {Undefined}

SettleAny ==
  \E i \in 1..thunks, good \in BOOLEAN, v \in ThunkValues :
    /\ good \/ v = CHOOSE x \in ThunkValues : TRUE
    /\ Settle(i, good, v)

\* The two checks of main on argv._ and argv.daemon.
ValidArgsEither(a) == a.command \/ a.daemon
ValidArgs(a) ==
  /\ ~(~a.command /\ ~a.daemon)
  /\ ~(a.command /\ a.daemon)

\* main up to its first wait.  A bad command line throws, and main().catch
\* sets the exit code.  With --daemon the process forks the child, which runs
\* the same checks on the same arguments and then runWithServer; without it
\* the process itself runs runWithServer.
ParseArgs ==
  /\ pc = "args"
  /\ IF ~ValidArgs(argv)
       THEN pc' = "returned" /\ exitCode' = 1 /\ UNCHANGED <<mode, parent>>
       ELSE /\ pc' = "main"
            /\ mode' = IF argv.daemon THEN "daemon" ELSE "single"
            /\ parent' = IF argv.daemon THEN "waiting" ELSE parent
            /\ UNCHANGED exitCode
  /\ UNCHANGED <<machineVars, configVars, snipVars, signalVars, argv, stdout, sent, runnerVars,
                 tarballFiles, tarballs, webServer, tempDir, actionCalls,
                 actionResult>>

\* The parent's 'message' listener: it writes the message, disconnects and
\* unrefs the child; main returns and nothing keeps the parent alive.
ParentReceives ==
  /\ parent = "waiting"
  /\ sent > stdout
  /\ stdout' = stdout + 1
  /\ parent' = "printed"
  /\ UNCHANGED <<machineVars, configVars, snipVars, signalVars, argv, sent, runnerVars, pc,
                 serverVars>>

\* The child ended without a message: the parent's loop runs empty and the
\* parent ends without having written anything.
ParentChildGone ==
  /\ parent = "waiting"
  /\ sent = stdout
  /\ ~Alive
  /\ parent' = "silent"
  /\ UNCHANGED <<machineVars, configVars, snipVars, signalVars, argv, sent, stdout, runnerVars,
                 pc, serverVars>>

\* const tempDir = await fs.mkdtemp(...): outside the try block.
Mkdtemp(okay) ==
  /\ pc = "main"
  /\ IF okay
       THEN pc' = "scan" /\ tempDir' = "exists" /\ UNCHANGED exitCode
       ELSE pc' = "returned" /\ exitCode' = 1 /\ UNCHANGED tempDir
  /\ UNCHANGED <<restVars, sent, runnerVars, mode, tarballFiles,
                 tarballs, webServer, actionCalls, actionResult>>

\* What a file found by the listing can be: an archive tar cannot read, an
\* archive without a package/package.json entry, one whose entry is not JSON,
\* and one whose entry is a JSON manifest.
TarballKinds == {"unreadable", "noentry", "badjson", "ok"}

\* extractFileFromTarball: tar.t rejects on an unreadable archive; otherwise
\* the chunks of the matching entry are concatenated, and no matching entry
\* leaves the empty buffer.
extractFileFromTarball(kind) ==
  CASE kind = "unreadable" -> [threw |-> TRUE,  text |-> ""]
    [] kind = "noentry"    -> [threw |-> FALSE, text |-> ""]
    [] kind = "badjson"    -> [threw |-> FALSE, text |-> "{"]
    [] OTHER               -> [threw |-> FALSE, text |-> "{}"]

\* JSON.parse throws a SyntaxError on the empty text and on malformed text.
JsonParseThrowsOnMalformedOnly(text) == text = "{"
JsonParseThrows(text) == text \in {"", "{"}

\* One round of the manifest loop: does the file reach tarballs.push?
ManifestRead(kind) ==
  LET data == extractFileFromTarball(kind)
  IN ~data.threw /\ ~JsonParseThrows(data.text)

\* The files whose package.json was read and parsed, in the order found.
RECURSIVE Readable(_, _)
Readable(files, k) ==
  IF k > Len(files) THEN <<>>
  ELSE IF ManifestRead(files[k]) THEN <<k>> \o Readable(files, k + 1)
  ELSE Readable(files, k + 1)

FileLists == UNION {[1..k -> TarballKinds] : k \in 0..MaxFiles}

\* if (tarballs.length > 0) around the first runVerdaccio call.
PublishPhaseAlways(tb) == TRUE
HasPublishPhase(tb) == Len(tb) > 0

\* Listing the files, reading each manifest, writing .npmrc; then the first
\* runVerdaccio call, which is the publish phase only if tarballs.length > 0.
ReadTarballs(files) ==
  /\ pc = "scan"
  /\ tarballFiles' = files
  /\ tarballs' = Readable(files, 1)
  /\ pc' = IF HasPublishPhase(tarballs') THEN "publish_starting" ELSE "serve_starting"
  /\ UNCHANGED <<restVars, sent, runnerVars, mode, webServer,
                 tempDir, exitCode, actionCalls, actionResult>>

\* glob, readdir or writeFile throws inside the try block.
SetupFails ==
  /\ pc = "scan"
  /\ exitCode' = ExitCodeAfter(TRUE, exitCode)
  /\ pc' = "rmdir"
  /\ tempDir' = "removing"
  /\ UNCHANGED <<restVars, sent, runnerVars, mode, tarballFiles,
                 tarballs, webServer, actionCalls, actionResult>>

\* The publish-phase listen callback: block() calls promiseAllConcurrent with
\* one npm publish thunk per tarball and no limit argument.
PublishListening ==
  /\ pc = "publish_starting"
  /\ webServer' = [webServer EXCEPT !["publish"] = "listening"]
  /\ RunnerBecomes(PromiseAllConcurrentCall(Len(tarballs), 0, cpus))
  /\ pc' = "publishing"
  /\ UNCHANGED <<restVars, sent, overtaken, mode, tarballFiles,
                 tarballs, tempDir, exitCode, actionCalls, actionResult>>

\* The serve-phase listen callback: block() invokes the action, which spawns
\* the COMMAND (single) or sends the exports and waits for a signal (daemon).
ServeListening ==
  /\ pc = "serve_starting"
  /\ webServer' = [webServer EXCEPT !["serve"] = "listening"]
  /\ actionCalls' = actionCalls + 1
  /\ sent' = IF mode = "daemon" THEN sent + 1 ELSE sent
  /\ pc' = "action"
  /\ UNCHANGED <<restVars, runnerVars, mode, tarballFiles, tarballs, tempDir,
                 exitCode, actionResult>>

\* Single-shot: the COMMAND's 'close' event (exit code 0 or not) or its
\* 'error' event (it could not be launched).
SubprocessCloses(good) ==
  /\ pc = "action"
  /\ mode = "single"
  /\ actionResult' = IF good THEN "done" ELSE "failed"
  /\ BlockSettled("serve", ~good)
  /\ UNCHANGED <<restVars, sent, runnerVars, mode, tarballFiles,
                 tarballs, actionCalls>>

Signals == {"SIGINT", "SIGTERM", "SIGUSR1"}

\* The listeners the action installs with process.on before it waits: the
\* single-shot action one for SIGINT that does nothing, the daemon action one
\* per signal that resolves a member of the Promise.race.
ListensDaemonOnly(m, sig) == m = "daemon" /\ sig \in Signals
ListensNoUsr1(m, sig) ==
  \/ m = "single" /\ sig = "SIGINT"
  \/ m = "daemon" /\ sig \in {"SIGINT", "SIGTERM"}
Listens(m, sig) ==
  \/ m = "single" /\ sig = "SIGINT"
  \/ m = "daemon" /\ sig \in Signals

\* The signals whose delivery is followed here: the interrupt of the terminal
\* in single-shot mode, the three shutdown signals in daemon mode, from the
\* moment the action has been invoked.
Delivered(m) == IF m = "daemon" THEN Signals ELSE {"SIGINT"}

\* A signal arrives.  Without a listener it ends the process.  With one: the
\* first signal of a waiting daemon wins the Promise.race and the action
\* returns; any other delivery runs a listener that changes nothing.
Signal(sig) ==
  /\ pc \in {"action", "rmdir", "returned"}
  /\ actionCalls > 0
  /\ sig \in Delivered(mode)
  /\ IF pc = "action"
       THEN signalled' = signalled \cup {sig} /\ UNCHANGED lateSignals
       ELSE /\ lateSignals < MaxLateSignals
            /\ lateSignals' = lateSignals + 1
            /\ UNCHANGED signalled
  /\ IF ~Listens(mode, sig)
       THEN ProcessDies /\ UNCHANGED actionResult
     ELSE IF mode = "daemon" /\ pc = "action"
       THEN actionResult' = "done" /\ BlockSettled("serve", FALSE)
     ELSE UNCHANGED <<pc, webServer, tempDir, exitCode, actionResult>>
  /\ UNCHANGED <<machineVars, configVars, snipVars, argv, parent, stdout, sent, runnerVars, mode,
                 tarballFiles, tarballs, actionCalls>>

\* fs.rmdir settles; a failure is only printed as a warning.
\* The catch around fs.rmdir writes a warning and assigns nothing.
ExitCodeRmdirFails(okay, code) == IF okay THEN code ELSE 1
ExitCodeAfterRmdir(okay, code) == code

RmdirSettles(okay) ==
  /\ pc = "rmdir"
  /\ tempDir' = IF okay THEN "removed" ELSE "leftover"
  /\ exitCode' = ExitCodeAfterRmdir(okay, exitCode)
  /\ pc' = "returned"
  /\ UNCHANGED <<restVars, sent, runnerVars, mode, tarballFiles,
                 tarballs, webServer, actionCalls, actionResult>>

\* The 'close' of a listener whose close() was called: not awaited by anyone.
CloseCompletes(phase) ==
  /\ Alive
  /\ webServer[phase] = "closing"
  /\ webServer' = [webServer EXCEPT ![phase] = "closed"]
  /\ UNCHANGED <<restVars, sent, runnerVars, pc, mode, tarballFiles,
                 tarballs, tempDir, exitCode, actionCalls, actionResult>>

\* main() has returned and nothing keeps the event loop alive.
Exit ==
  /\ pc = "returned"
  /\ Running = {}
  /\ \A p \in Phases : webServer[p] \in {"none", "closed"}
  /\ pc' = "exited"
  /\ UNCHANGED <<restVars, sent, runnerVars, mode, tarballFiles,
                 tarballs, webServer, tempDir, exitCode, actionCalls,
                 actionResult>>

\* ------------------------------------------- the serve-phase configuration

\* The masks tried: the catch-all itself, a scope mask and a package name; and
\* the names found in manifests.
Masks == {"**", "@corp/*", "left-pad"}
PackageNames == {"left-pad", "@corp/widget"}

SeqsUpTo(S, k) == UNION {[1..j -> S] : j \in 0..k}

\* const packagesToHide = [...argv["hide-upstream"]]; and, with
\* --hide-tarballs, packagesToHide.push(...tarballs.map(t => t.packageJson.name)).
PackagesToHide(masks, hideAll, names) ==
  IF hideAll THEN masks \o names ELSE masks

NoProxy == "none"

\* obj[key] = rule on an object with string keys: a new key is added after
\* the existing ones, an existing key keeps its place and gets the new value.
Assign(obj, key, proxy) ==
  IF \E k \in 1..Len(obj) : obj[k].mask = key
    THEN [k \in 1..Len(obj) |->
            IF obj[k].mask = key THEN [mask |-> key, proxy |-> proxy] ELSE obj[k]]
    ELSE Append(obj, [mask |-> key, proxy |-> proxy])

\* The loop over packagesToHide, from mask k on.
RECURSIVE AssignMasks(_, _, _)
AssignMasks(obj, masks, k) ==
  IF k > Len(masks) THEN obj
  ELSE AssignMasks(Assign(obj, masks[k], NoProxy), masks, k + 1)

\* finalPackageConfig: one rule without proxy per mask, then
\* finalPackageConfig['**'] = { ..., proxy: 'npmjs' }.
FinalPackageConfig(masks) == Assign(AssignMasks(<<>>, masks, 1), "**", "npmjs")

\* The runs of the orchestrator do not follow the configuration.
ConfigNotFollowed ==
  /\ hideUpstream = <<>>
  /\ hideTarballs = FALSE
  /\ packageNames = <<>>
  /\ packagesToHide = <<>>
  /\ finalPackageConfig = <<>>

\* ------------------------------------------------------------ shrink-snip.ts

\* A scope's dependencies are the sequence of its packages in key order, a
\* package being [name, requires, dependencies].  Packages are numbered; the
\* top-level ones carry their place in the key order as their name (which
\* name comes first is a matter of naming).  The name of a nested package is
\* never read.

\* Is packageName in the requires of a package of the scope, at any depth?
RECURSIVE doesAnythingDependOn(_, _)
DependsTopLevelOnly(packageName, deps) ==
  \E i \in 1..Len(deps) : packageName \in deps[i].requires
doesAnythingDependOn(packageName, deps) ==
  \E i \in 1..Len(deps) :
    \/ packageName \in deps[i].requires
    \/ doesAnythingDependOn(packageName, deps[i].dependencies)

\* delete scope.dependencies[name]
DeleteKey(deps, name) == SelectSeq(deps, LAMBDA p : p.name # name)

\* The for loop of removeObsoletePackages from the k-th of the keys taken by
\* Object.keys before the loop: each name is tested against the scope as the
\* deletions so far have left it.
RECURSIVE RemoveFrom(_, _, _, _, _)
RemoveFrom(deps, names, k, direct, changed) ==
  IF k > Len(names) THEN [dependencies |-> deps, changes |-> changed]
  ELSE IF names[k] \notin direct /\ ~doesAnythingDependOn(names[k], deps)
    THEN RemoveFrom(DeleteKey(deps, names[k]), names, k + 1, direct, TRUE)
  ELSE RemoveFrom(deps, names, k + 1, direct, changed)

\* changes = false; removeObsoletePackages(shrinkwrap);
removeObsoletePackages(deps, direct) ==
  RemoveFrom(deps, [i \in 1..Len(deps) |-> deps[i].name], 1, direct, FALSE)

\* The trees tried, with k packages at the top level: every package requires
\* nothing or one package, and one of them may hold a nested package, which
\* may hold one more.
RequiresChoices(k) == {{}} \cup {{x} : x \in 1..k}
Leaf(R) == [name |-> 1, requires |-> R, dependencies |-> <<>>]
NestedChoices(k) ==
  {<<>>}
    \cup {<<Leaf(R)>> : R \in RequiresChoices(k)}
    \cup {<<[name |-> 1, requires |-> {}, dependencies |-> <<Leaf(R)>>]>> :
            R \in RequiresChoices(k) \ {{}}}
Trees(k) ==
  IF k = 0 THEN {<<>>}
  ELSE {[i \in 1..k |->
           [name |-> i, requires |-> f[i],
            dependencies |-> IF i = p THEN nd ELSE <<>>]] :
          f \in [1..k -> RequiresChoices(k)], p \in 1..k, nd \in NestedChoices(k)}

\* The runs of the server do not follow the script.
SnipNotFollowed ==
  /\ shrinkwrap = <<>>
  /\ directDeps = {}
  /\ changes = FALSE

\* The machines tried: one cpu (the default limit is the floor 2), the largest
\* one, and one cpu less than that (so that one of the two halves is a
\* fraction).
CpuCounts == {1, MaxCpus - 1, MaxCpus}

Machine ==
  /\ cpus \in CpuCounts
  /\ unhandledRejections \in {"warn", "throw"}

Init ==
  /\ Machine
  /\ RunnerIs(NoCall)
  /\ overtaken = FALSE
  /\ pc = "args"
  /\ argv \in [command : BOOLEAN, daemon : BOOLEAN]
  /\ mode = "none"
  /\ parent = "none"
  /\ sent = 0
  /\ stdout = 0
  /\ signalled = {}
  /\ lateSignals = 0
  /\ ConfigNotFollowed
  /\ SnipNotFollowed
  /\ tarballFiles = <<>>
  /\ tarballs = <<>>
  /\ webServer = [p \in Phases |-> "none"]
  /\ tempDir = "none"
  /\ exitCode = 0
  /\ actionCalls = 0
  /\ actionResult = "none"

Next ==
  \/ ParseArgs
  \/ ParentReceives
  \/ ParentChildGone
  \/ \E okay \in BOOLEAN : Mkdtemp(okay)
  \/ \E files \in FileLists : ReadTarballs(files)
  \/ SetupFails
  \/ PublishListening
  \/ SettleAny
  \/ ServeListening
  \/ \E good \in BOOLEAN : SubprocessCloses(good)
  \/ \E sig \in Signals : Signal(sig)
  \/ \E okay \in BOOLEAN : RmdirSettles(okay)
  \/ \E phase \in Phases : CloseCompletes(phase)
  \/ Exit

Spec == Init /\ [][Next]_vars

\* A direct caller of promiseAllConcurrent: any list, any limit.
RunnerInit ==
  /\ Machine
  /\ RunnerIs(NoCall)
  /\ overtaken = FALSE
  /\ pc = "caller"
  /\ argv = [command |-> TRUE, daemon |-> FALSE]
  /\ mode = "single"
  /\ parent = "none"
  /\ sent = 0
  /\ stdout = 0
  /\ signalled = {}
  /\ lateSignals = 0
  /\ ConfigNotFollowed
  /\ SnipNotFollowed
  /\ tarballFiles = <<>>
  /\ tarballs = <<>>
  /\ webServer = [p \in Phases |-> "none"]
  /\ tempDir = "none"
  /\ exitCode = 0
  /\ actionCalls = 0
  /\ actionResult = "none"

CallDirect(N, arg) ==
  /\ pc = "caller"
  /\ RunnerBecomes(PromiseAllConcurrentCall(N, arg, cpus))
  /\ pc' = "standalone"
  /\ UNCHANGED <<restVars, sent, overtaken, serverVars>>

RunnerNext ==
  \/ \E N \in 0..MaxN, arg \in 0..MaxLimit : CallDirect(N, arg)
  \/ SettleAny

RunnerSpec == RunnerInit /\ [][RunnerNext]_vars

\* The configuration alone: the options and the names read from the
\* manifests are the inputs, the two steps build packagesToHide and
\* finalPackageConfig.
ConfigInit ==
  /\ Machine
  /\ RunnerIs(NoCall)
  /\ overtaken = FALSE
  /\ pc = "manifests_read"
  /\ argv = [command |-> TRUE, daemon |-> FALSE]
  /\ mode = "single"
  /\ parent = "none"
  /\ sent = 0
  /\ stdout = 0
  /\ signalled = {}
  /\ lateSignals = 0
  /\ hideUpstream \in SeqsUpTo(Masks, MaxMasks)
  /\ hideTarballs \in BOOLEAN
  /\ packageNames \in SeqsUpTo(PackageNames, MaxMasks)
  /\ packagesToHide = <<>>
  /\ finalPackageConfig = <<>>
  /\ SnipNotFollowed
  /\ tarballFiles = [k \in 1..Len(packageNames) |-> "ok"]
  /\ tarballs = [k \in 1..Len(packageNames) |-> k]
  /\ webServer = [p \in Phases |-> "none"]
  /\ tempDir = "exists"
  /\ exitCode = 0
  /\ actionCalls = 0
  /\ actionResult = "none"

BuildPackagesToHide ==
  /\ pc = "manifests_read"
  /\ packagesToHide' = PackagesToHide(hideUpstream, hideTarballs, packageNames)
  /\ pc' = "hide_set_built"
  /\ UNCHANGED <<machineVars, snipVars, hideUpstream, hideTarballs, packageNames,
                 finalPackageConfig, argv, parent, stdout, signalVars, sent,
                 runnerVars, serverVars>>

BuildFinalPackageConfig ==
  /\ pc = "hide_set_built"
  /\ finalPackageConfig' = FinalPackageConfig(packagesToHide)
  /\ pc' = "config_built"
  /\ UNCHANGED <<machineVars, snipVars, hideUpstream, hideTarballs, packageNames,
                 packagesToHide, argv, parent, stdout, signalVars, sent,
                 runnerVars, serverVars>>

ConfigNext == BuildPackagesToHide \/ BuildFinalPackageConfig

ConfigSpec == ConfigInit /\ [][ConfigNext]_vars

\* shrink-snip.ts once the two files are loaded and the two requires entries
\* of lines 14-15 are deleted.
SnipInit ==
  /\ cpus = 1
  /\ unhandledRejections = "warn"
  /\ RunnerIs(NoCall)
  /\ overtaken = FALSE
  /\ pc = "snip_loop"
  /\ argv = [command |-> FALSE, daemon |-> FALSE]
  /\ mode = "none"
  /\ parent = "none"
  /\ sent = 0
  /\ stdout = 0
  /\ signalled = {}
  /\ lateSignals = 0
  /\ ConfigNotFollowed
  /\ \E k \in 0..MaxPackages :
       /\ shrinkwrap \in Trees(k)
       /\ directDeps \in SUBSET (1..k)
  /\ changes = FALSE
  /\ tarballFiles = <<>>
  /\ tarballs = <<>>
  /\ webServer = [p \in Phases |-> "none"]
  /\ tempDir = "none"
  /\ exitCode = 0
  /\ actionCalls = 0
  /\ actionResult = "none"

\* One round of do { ... } while (changes).
SnipPass ==
  /\ pc = "snip_loop"
  /\ LET r == removeObsoletePackages(shrinkwrap, directDeps)
     IN /\ shrinkwrap' = r.dependencies
        /\ changes' = r.changes
        /\ pc' = IF r.changes THEN "snip_loop" ELSE "snip_pruned"
  /\ UNCHANGED <<machineVars, configVars, directDeps, argv, parent, stdout,
                 signalVars, sent, runnerVars, serverVars>>

\* fs.writeFileSync('npm-shrinkwrap.json', ...)
SnipWrite ==
  /\ pc = "snip_pruned"
  /\ pc' = "snip_written"
  /\ UNCHANGED <<restVars, sent, runnerVars, serverVars>>

SnipNext == SnipPass \/ SnipWrite

SnipSpec == SnipInit /\ [][SnipNext]_vars /\ WF_vars(SnipNext)

\* ------------------------------------------------------------------ claims

\* C1: at every instant of a promiseAllConcurrent run the number of operations
\* launched but not yet settled is at most the limit, whatever the order of
\* completions and whichever of them fail.
C1_AtMostLimitInFlight ==
  pc \in {"standalone", "crashed"} => Cardinality(Running) <= n

\* The limit binds: more thunks than the limit, a replacement was launched
\* after a completion, and the limit is reached again.
C1_Witness ==
  /\ pc = "standalone"
  /\ n < thunks
  /\ next > n
  /\ Cardinality(Running) = n

\* C2: the returned promise fulfils only once every operation has settled (all
\* of them fulfilled), with exactly N results, result i being the value of
\* input operation i, whatever the completion order and the limit.
C2_ResultsInInputOrder ==
  (pc = "standalone" /\ outcome = "fulfilled") =>
    /\ \A i \in 1..thunks : status[i] = "fulfilled"
    /\ Len(results) = thunks
    /\ \A i \in 1..thunks : results[i] = value[i]

\* Fulfilled with a limit below N, operations completed out of input order
\* and results that differ from place to place.
C2_Witness ==
  /\ pc = "standalone"
  /\ outcome = "fulfilled"
  /\ thunks >= 3
  /\ n < thunks
  /\ overtaken
  /\ results[1] # results[2]

\* C3: for an empty input sequence the returned promise resolves at once with
\* an empty result list, for any limit.
C3_EmptyResolves ==
  (pc = "standalone" /\ thunks = 0) =>
    (outcome = "fulfilled" /\ results = <<>>)

\* C4: the returned promise never rejects while some operation is still
\* unlaunched or unsettled.
C4_RejectsOnlyWhenAllSettled ==
  (pc = "standalone" /\ outcome = "rejected") => Settled = 1..thunks

\* C5: once an operation has failed and every launched operation has settled,
\* the returned promise has settled as a failure carrying the cause of one of
\* the failed operations.
C5_FailureSurfaces ==
  (pc = "standalone" /\ Rejected # {} /\ Running = {}) =>
    (outcome = "rejected" /\ cause \in Rejected)

\* C6: the serve-phase listener is never open while the publish-phase listener
\* is still bound: the publish-phase close has completed before the serve
\* phase listens.
C6_OneListener ==
  webServer["serve"] \in {"listening", "closing"} =>
    webServer["publish"] \in {"none", "closed"}

\* C7: at the moment the publish-phase listener's close is requested, and at
\* the moment removal of the temporary directory starts, no npm publish
\* subprocess is still running.
C7_NoPublishRunningAtStop ==
  [][(\/ webServer["publish"] = "listening" /\ webServer'["publish"] = "closing"
      \/ tempDir = "exists" /\ tempDir' = "removing")
     => Running' = {}]_vars

\* C8: once the temporary directory exists, a run that can take no further
\* step (every subprocess exited, every awaited event delivered) has performed
\* the removal of the temporary directory.
C8_CleanupReached ==
  (tempDir # "none" /\ ~ENABLED Next) => tempDir \in {"removed", "leftover"}

\* C9: if a publish subprocess failed, a run that can take no further step has
\* terminated with a nonzero exit code.
C9_PublishFailureFailsRun ==
  (Rejected # {} /\ ~ENABLED Next) =>
    (pc \in {"exited", "crashed"} /\ exitCode # 0)

\* C10: single-shot mode.  When the COMMAND fails, the serve-phase registry is
\* stopped, the temporary directory is removed (fs.rmdir has been started, and
\* at exit has run: the directory is gone unless rmdir itself failed, which
\* only warns) and the exit code is nonzero; when the publish phase, the serve
\* phase and the COMMAND all succeed, the exit code is zero.
C10_SubcommandFailure ==
  /\ (mode = "single" /\ actionResult = "failed") =>
       /\ webServer["serve"] \in {"closing", "closed"}
       /\ tempDir \in {"removing", "removed", "leftover"}
       /\ exitCode # 0
       /\ pc = "exited" =>
            (webServer["serve"] = "closed" /\ tempDir \in {"removed", "leftover"})
  /\ (mode = "single" /\ actionResult = "done" /\ pc = "exited") => exitCode = 0

\* The COMMAND failed after a publish phase that succeeded, and the process
\* has exited with the directory removed.
C10_Witness ==
  /\ mode = "single"
  /\ actionResult = "failed"
  /\ Len(tarballs) > 0
  /\ pc = "exited"
  /\ tempDir = "removed"

\* C11: daemon mode.  The child sends the parent one message per run and no
\* more, and sends it only when the registry is ready: the publish phase (if
\* there was one) has finished with every publish fulfilled and its listener
\* has been told to close, and the serve-phase listener is listening; from the
\* moment the action is invoked the message has been sent.  The parent writes
\* it to stdout once and ends; it can do so whatever the child is doing.
C11_OneReadyMessage ==
  /\ sent <= 1
  /\ stdout <= sent
  /\ sent = 1 =>
       /\ mode = "daemon"
       /\ actionCalls = 1
       /\ webServer["serve"] # "none"
       /\ webServer["publish"] # "listening"
       /\ Len(tarballs) > 0 =>
            (outcome = "fulfilled" /\ webServer["publish"] \in {"closing", "closed"})
  /\ (mode = "daemon" /\ actionCalls = 1) => sent = 1
  /\ (sent = 1 /\ pc = "action") => webServer["serve"] = "listening"
  /\ parent = "printed" => stdout = 1
  /\ (parent = "waiting" /\ sent = 1) => ENABLED ParentReceives

\* The parent has written the message and ended while the child, which
\* published tarballs first, is still serving.
C11_Witness ==
  /\ parent = "printed"
  /\ stdout = 1
  /\ Len(tarballs) > 0
  /\ pc = "action"
  /\ webServer["serve"] = "listening"

\* C12: daemon mode, once the ready message has been sent.  Whichever of
\* SIGINT, SIGTERM and SIGUSR1 arrives first ends the action in the same way:
\* the serve-phase registry is told to close and removal of the temporary
\* directory starts, with the exit code untouched.  A signal arriving later
\* changes nothing: cleanup is neither undone nor run again.  When nothing is
\* left to happen the child has exited with the registry closed and the
\* removal done.
C12_SignalsShutDown ==
  /\ [][/\ (mode = "daemon" /\ signalled' # signalled) =>
             /\ sent = 1
             /\ actionResult' = "done"
             /\ webServer'["serve"] = "closing"
             /\ tempDir = "exists" /\ tempDir' = "removing"
             /\ pc' = "rmdir"
             /\ exitCode' = exitCode
        /\ (mode = "daemon" /\ lateSignals' # lateSignals) =>
             UNCHANGED <<pc, webServer, tempDir, exitCode, actionResult>>]_vars
  /\ []((mode = "daemon" /\ signalled # {} /\ ~ENABLED <<Next>>_vars) =>
          /\ pc = "exited"
          /\ Cardinality(signalled) = 1
          /\ webServer["serve"] = "closed"
          /\ tempDir \in {"removed", "leftover"})

\* SIGUSR1 ended the action, two more signals arrived afterwards, and
\* the child has exited with the directory removed.
C12_Witness ==
  /\ mode = "daemon"
  /\ signalled = {"SIGUSR1"}
  /\ lateSignals = 2
  /\ pc = "exited"
  /\ tempDir = "removed"

\* C17: single-shot mode.  A SIGINT delivered while the COMMAND runs does not
\* end the controlling process and changes nothing in it: it goes on waiting
\* for the COMMAND.  When nothing is left to happen after such a SIGINT, the
\* COMMAND has exited, the registry is closed, the removal of the temporary
\* directory has run and the process has exited.
C17_SigintIgnored ==
  /\ [][(mode = "single" /\ (signalled' # signalled \/ lateSignals' # lateSignals)) =>
          UNCHANGED <<pc, webServer, tempDir, exitCode, actionResult>>]_vars
  /\ []((mode = "single" /\ signalled # {}) => pc # "crashed")
  /\ []((mode = "single" /\ signalled # {} /\ ~ENABLED <<Next>>_vars) =>
          /\ pc = "exited"
          /\ actionResult # "none"
          /\ webServer["serve"] = "closed"
          /\ tempDir \in {"removed", "leftover"})

\* A SIGINT arrived while the COMMAND was running; the COMMAND then exited and
\* the process cleaned up and exited.
C17_Witness ==
  /\ mode = "single"
  /\ signalled = {"SIGINT"}
  /\ actionResult = "done"
  /\ pc = "exited"
  /\ tempDir = "removed"

\* C13: exactly one of "a COMMAND was given" and "--daemon was given" must
\* hold.  When neither or both hold, main throws before anything is acquired:
\* no temporary directory, no registry, no publish or COMMAND subprocess, no
\* forked daemon; and once main has returned the exit code is nonzero.
C13_ConfigError ==
  (argv.command = argv.daemon) =>
    /\ mode = "none"
    /\ tempDir = "none"
    /\ \A p \in Phases : webServer[p] = "none"
    /\ thunks = 0 /\ Running = {}
    /\ actionCalls = 0
    /\ parent = "none" /\ sent = 0
    /\ pc \in {"args", "returned", "exited"}
    /\ pc # "args" => exitCode # 0

\* Both a COMMAND and --daemon were given, and the process has exited.
C13_Witness ==
  /\ argv.command /\ argv.daemon
  /\ pc = "exited"
  /\ exitCode = 1

\* C14: a file whose manifest cannot be read or parsed never aborts the run.
\* Once the manifest loop has run, the publish set holds exactly the files
\* that are readable archives with a JSON package/package.json entry, in the
\* order the files were found; and the step that runs the loop goes on to the
\* first registry start: the publish phase when the set is non-empty, the
\* serve phase otherwise, with the exit code untouched.
C14_BadManifestSkipped ==
  /\ [](/\ \A i \in 1..Len(tarballs) : tarballs[i] \in 1..Len(tarballFiles)
        /\ \A i, j \in 1..Len(tarballs) : i < j => tarballs[i] < tarballs[j]
        /\ \A k \in 1..Len(tarballFiles) :
             (tarballFiles[k] = "ok") <=> (\E i \in 1..Len(tarballs) : tarballs[i] = k))
  /\ [][(pc = "scan" /\ tarballFiles' # tarballFiles) =>
          /\ pc' = IF \E k \in 1..Len(tarballFiles') : tarballFiles'[k] = "ok"
                     THEN "publish_starting" ELSE "serve_starting"
          /\ exitCode' = exitCode
          /\ tempDir' = tempDir]_vars

\* One file of each failing kind around a good one, and the publish phase of
\* the one good tarball has been reached.
C14_Witness ==
  /\ Len(tarballFiles) = 3
  /\ tarballFiles[1] = "noentry"
  /\ tarballFiles[2] = "ok"
  /\ tarballFiles[3] \in {"unreadable", "badjson"}
  /\ tarballs = <<2>>
  /\ pc = "publishing"

\* C16: a failure of the removal of the temporary directory is a warning
\* only.  The step in which fs.rmdir settles leaves the exit code as it was,
\* whether the removal succeeded or failed, and no step taken while the
\* removal runs or after it has settled changes the exit code: a run whose
\* cleanup failed ends with the exit code it would have had otherwise.
C16_CleanupFailureOnlyWarns ==
  [][(pc = "rmdir" \/ tempDir \in {"removed", "leftover"}) =>
       exitCode' = exitCode]_vars

\* A run without any failure but the one of the removal has exited with 0,
\* the directory left behind.
C16_Witness ==
  /\ tempDir = "leftover"
  /\ pc = "exited"
  /\ actionResult = "done"
  /\ exitCode = 0

\* C18: in promiseAllConcurrent, each time a running thunk settles, by
\* success or by failure, while thunks not yet launched remain, the cursor
\* advances by one and the thunk under it is launched; hence when no launched
\* thunk is running any more, none of the N thunks is left unlaunched.
C18_SettleLaunchesNext ==
  /\ [][\A i \in 1..thunks :
          (/\ pc = "standalone"
           /\ status[i] = "running"
           /\ status'[i] \in {"fulfilled", "rejected"}
           /\ next < thunks) =>
            (next' = next + 1 /\ status'[next + 1] = "running")]_vars
  /\ []((pc = "standalone" /\ Running = {}) =>
          \A i \in 1..thunks : status[i] # "unlaunched")

\* C19: the caller-supplied action is invoked at most once per run, and only
\* after a publish phase that completed without error: either there were no
\* tarballs and nothing was published, or every publish subprocess exited
\* with 0.  After a failed publish the serve-phase registry is never started.
C19_ActionOnlyAfterPublish ==
  /\ actionCalls <= 1
  /\ actionCalls = 1 =>
       /\ webServer["serve"] # "none"
       /\ thunks = Len(tarballs)
       /\ \A i \in 1..thunks : status[i] = "fulfilled"
       /\ thunks > 0 => outcome = "fulfilled"
  /\ (pc # "standalone" /\ Rejected # {}) =>
       /\ actionCalls = 0
       /\ webServer["serve"] = "none"
       /\ pc # "serve_starting"

\* Three tarballs were published without error and the action has been
\* invoked once.
C19_Witness ==
  /\ actionCalls = 1
  /\ thunks = 3
  /\ outcome = "fulfilled"
  /\ pc = "action"

\* C20: with an empty publish set the publish phase is skipped entirely: no
\* publish-phase registry is started, promiseAllConcurrent is not called and
\* no publish subprocess runs, and when the action is invoked the registry has
\* been started once, for the serve phase.  With a non-empty publish set the
\* serve-phase registry is started only after the publish-phase one was told
\* to close, with one publish per tarball.  No registry is started a second
\* time for the same phase.
C20_EmptySetSkipsPublish ==
  /\ []((pc # "standalone" /\ Len(tarballs) = 0) =>
          /\ webServer["publish"] = "none"
          /\ pc \notin {"publish_starting", "publishing"}
          /\ thunks = 0 /\ Running = {}
          /\ actionCalls = 1 =>
               Cardinality({p \in Phases : webServer[p] # "none"}) = 1)
  /\ []((pc # "standalone" /\ Len(tarballs) > 0) =>
          /\ webServer["publish"] # "none" => thunks = Len(tarballs)
          /\ webServer["serve"] # "none" =>
               webServer["publish"] \in {"closing", "closed"})
  /\ [][\A p \in Phases :
          (webServer'[p] = "listening" /\ webServer[p] # "listening") =>
            webServer[p] = "none"]_vars

\* Files were found but no manifest could be read: the action runs against
\* the one registry of the serve phase.
C20_Witness ==
  /\ Len(tarballFiles) > 0
  /\ Len(tarballs) = 0
  /\ actionCalls = 1
  /\ webServer["serve"] = "listening"
  /\ webServer["publish"] = "none"

\* C15: in the serve-phase configuration every mask of the hide set (the
\* --hide-upstream masks and, with --hide-tarballs, the name of every tarball
\* read) has a rule without proxy that comes before the catch-all rule, and
\* the catch-all rule "**" proxies to the upstream; whatever the hide set,
\* also one that holds "**" or the same mask twice.
C15_HiddenBeforeCatchAll ==
  pc = "config_built" =>
    LET hidden == {hideUpstream[k] : k \in 1..Len(hideUpstream)} \cup
                  (IF hideTarballs
                     THEN {packageNames[k] : k \in 1..Len(packageNames)}
                     ELSE {})
        cfg == finalPackageConfig
    IN /\ \E c \in 1..Len(cfg) :
            /\ cfg[c].mask = "**" /\ cfg[c].proxy = "npmjs"
            /\ \A m \in hidden :
                 \E k \in 1..(c - 1) : cfg[k].mask = m /\ cfg[k].proxy = NoProxy

\* Is the name in the requires of a package of the given top-level list, or
\* of a package nested one or two levels below one?  (The trees tried are no
\* deeper.)
NamedInRequires(name, deps) ==
  \E i \in 1..Len(deps) :
    \/ name \in deps[i].requires
    \/ \E j \in 1..Len(deps[i].dependencies) :
         \/ name \in deps[i].dependencies[j].requires
         \/ \E l \in 1..Len(deps[i].dependencies[j].dependencies) :
              name \in deps[i].dependencies[j].dependencies[l].requires

\* C21: the pruning loop of shrink-snip.ts terminates, and what it leaves is a
\* fixed point: every top-level package still present is a direct dependency
\* of package.json or is named in the requires of a package still present, at
\* any depth.  Each round that reports changes leaves fewer top-level
\* packages, a round without changes leaves the tree as it was and ends the
\* loop, and a package is removed only if it is neither a direct dependency
\* nor required by what remains: packages that require each other stay.
C21_PruningReachesFixedPoint ==
  /\ <>(pc = "snip_written")
  /\ [](pc \in {"snip_pruned", "snip_written"} =>
          \A i \in 1..Len(shrinkwrap) :
            \/ shrinkwrap[i].name \in directDeps
            \/ NamedInRequires(shrinkwrap[i].name, shrinkwrap))
  /\ [][pc = "snip_loop" =>
          /\ changes' => Len(shrinkwrap') < Len(shrinkwrap)
          /\ ~changes' => (shrinkwrap' = shrinkwrap /\ pc' = "snip_pruned")
          /\ \A i \in 1..Len(shrinkwrap) :
               \/ \E j \in 1..Len(shrinkwrap') : shrinkwrap'[j] = shrinkwrap[i]
               \/ /\ shrinkwrap[i].name \notin directDeps
                  /\ ~NamedInRequires(shrinkwrap[i].name, shrinkwrap')]_vars

\* Packages 1 and 2 require each other and neither is a direct dependency:
\* the file has been written and both are still there.
C21_Witness ==
  /\ pc = "snip_written"
  /\ directDeps = {}
  /\ Len(shrinkwrap) = 2
  /\ shrinkwrap[1].name = 1 /\ shrinkwrap[1].requires = {2}
  /\ shrinkwrap[2].name = 2 /\ shrinkwrap[2].requires = {1}

====
